---- MODULE Spec2Model ----
(***************************************************************************)
(* Playback-sync engine of OpenWebTTS.                                     *)
(*                                                                         *)
(*  - the web-app sequencer of static/js/index.js (startSpeechGeneration,  *)
(*    processAndQueueChunk, generateRegularAudio, playAudioQueue, the      *)
(*    onended handler, stopAudioQueue, the chunk controls, pause/resume);  *)
(*  - the reading session of the browser extension                         *)
(*    (browser-extension/background/background.js: startReading,           *)
(*    readTextNodes, playChunkWithTiming, stopReading).                    *)
(*                                                                         *)
(* JavaScript runs every callback to completion, so one action is one      *)
(* callback (or the part of an async function between two awaits).  A      *)
(* callback is an operator from the application state (a record) to the    *)
(* application state, so that nested calls compose as in the code.         *)
(***************************************************************************)
EXTENDS Integers, Sequences, FiniteSets, TLC

VARIABLES appState, state

vars == <<appState, state>>

(***************************************************************************)
(* Bounds of the model.                                                    *)
(***************************************************************************)
MaxChunks == 4      \* chunks of the first page of the book
NumPages == 2       \* pages of the book
MaxTimers == 1      \* retry timers counted (more are counted as MaxTimers)
MaxSessions == 2    \* invocations of the extension's reader
MaxExtChunks == 2   \* chunks the backend returns for one reading
MaxWords == 3       \* words of a chunk
NumElements == 2    \* readable elements of the page the extension reads
MaxText == 5        \* characters of the text of a text node
MaxNodes == 1       \* text nodes handed to splitIntoChunks

(***************************************************************************)
(* Program constants.                                                      *)
(***************************************************************************)
MaxRetries == 3         \* index.js:1470  if (currentAudio.retries < 3)
InitialBuffer == 3      \* index.js:1632  Math.min(3, allTextChunks.length)

Min(a, b) == IF a < b THEN a ELSE b

(***************************************************************************)
(* Values.  A chunk is named by the page it was cut from and its index in  *)
(* that page's chunk list; page 0 stands for "no page" (null).             *)
(***************************************************************************)
NoChunk == [page |-> 0, idx |-> 0]
NoAudio == [page |-> 0, idx |-> 0, retries |-> 0, timing |-> FALSE]
NoChunks == [page |-> 0, len |-> 0]
NoRejects == [page |-> 0, idx |-> 0, n |-> 0]

\* number of chunks splitTextIntoChunksAsync returns for the text of page p;
\* a page past the end of the book has no text
PageLen(s, p) == IF p < 1 \/ p > s.numPages THEN 0
                 ELSE IF p = 1 THEN MaxChunks ELSE 2

Slots == 0..(MaxChunks + 1)

(***************************************************************************)
(* Timing data of a chunk: timingData.words, one entry per word with the   *)
(* interval of the audio clock in which it is spoken and the skip mark of  *)
(* the tokens that are not to be highlighted.  Word i (from 1) ends at     *)
(* time 2i; it starts where the word before it ends, or one unit later     *)
(* when a silence precedes it.  The audio lasts one unit longer than the   *)
(* last word.                                                              *)
(***************************************************************************)
Word(gap, skip, i) ==
    [startTime |-> IF gap THEN 2 * i - 1 ELSE 2 * i - 2, endTime |-> 2 * i,
     skip |-> skip]

Timings ==
    UNION {{[i \in 1..n |-> Word(gaps[i], skips[i], i)] :
               gaps \in [1..n -> BOOLEAN], skips \in [1..n -> BOOLEAN]} :
           n \in 1..MaxWords}

\* a chunk of a single word
OneWord == <<Word(FALSE, FALSE, 1)>>

\* audioPlayer.duration
Duration(words) == 2 * Len(words) + 1

\* the values of audioPlayer.currentTime at a timeupdate event or a frame
Times(words) == 0..Duration(words)

\* audioPlayer.currentTime before the handler has read it
NoTime == -1

ChunkOf(a) == [page |-> a.page, idx |-> a.idx]

\* audioQueue[k] of a JavaScript array: undefined outside the filled slots
QueueAt(s, k) == IF k \in DOMAIN s.audioQueue THEN s.audioQueue[k] ELSE NoAudio

EmptyQueue == [k \in Slots |-> NoAudio]

(***************************************************************************)
(* UI.js: updatePlayerUI(state, appState) keeps the two flags of the       *)
(* player in step with the state shown.                                    *)
(***************************************************************************)
updatePlayerUI(s, st) ==
    [s EXCEPT !.playerUI = st,
              !.isPlaying = (st \in {"PLAYING", "PAUSED"}),
              !.isPaused = (st = "PAUSED")]

(***************************************************************************)
(* The <audio> element.                                                    *)
(***************************************************************************)
\* audioPlayer.pause()
AudioPause(s) ==
    [s EXCEPT !.audioState = IF @ \in {"playing", "starting"} THEN "paused" ELSE @]

\* audioPlayer.src = ''
AudioClearSrc(s) ==
    [s EXCEPT !.audioSrc = NoChunk, !.audioState = "idle", !.currentTime = NoTime]

\* audioPlayer.play() called directly (resume): restarts an ended audio
AudioPlay(s) ==
    IF s.audioSrc = NoChunk THEN s
    ELSE [s EXCEPT !.audioState = "playing"]

(***************************************************************************)
(* Highlighting of the web app.                                            *)
(***************************************************************************)
\* index.js clearPdfHighlights
clearPdfHighlights(s) == [s EXCEPT !.hlPdfLayer = NoChunk]

\* index.js clearAllHighlights
clearAllHighlights(s) ==
    clearPdfHighlights([s EXCEPT !.hlText = NoChunk, !.hlWord = FALSE])

\* index.js highlightChunk (plain text): wraps the words of the chunk, when
\* its text is found in the page being read
highlightChunk(s, c) ==
    IF s.currentReadingPage = 0 THEN s
    ELSE IF c.page # s.currentReadingPage
         THEN [s EXCEPT !.hlText = NoChunk, !.hlWord = FALSE]
    ELSE [s EXCEPT !.hlText = c, !.hlWord = FALSE,
                   !.currentWordCount = Len(s.words),
                   !.currentWordIndex = 0,
                   !.currentChunkId = c]

\* index.js unhighlightChunk
unhighlightChunk(s) ==
    IF s.currentReadingPage = 0 THEN s
    ELSE [s EXCEPT !.hlText = NoChunk, !.hlWord = FALSE,
                   !.currentWordIndex = 0, !.currentWordCount = 0,
                   !.currentChunkId = NoChunk]

\* index.js highlightPdfChunk and addPdfChunkHighlightToSpans
highlightPdfChunk(s, c) ==
    IF s.currentReadingPage = 0 THEN s
    ELSE IF c.page # s.currentReadingPage THEN [s EXCEPT !.hlPdfLayer = NoChunk]
    ELSE [s EXCEPT !.hlPdfLayer = c,
                   !.hlPdfSpans = IF s.pdfTextPositions THEN c ELSE @]

\* the span classes removed by the onended handler and by stopAudioQueue
clearPdfSpanHighlights(s) ==
    [s EXCEPT !.hlPdfSpans = NoChunk, !.hlPdfWord = FALSE, !.hlPdfWordIndex = 0]

(***************************************************************************)
(* processAndQueueChunk: issue the request for the audio of a chunk.  With *)
(* usePdfBackendTiming the request is generateSpeechWithTiming, followed   *)
(* by generateRegularAudio when it yields no timing data; otherwise it is  *)
(* generateRegularAudio at once.  Nothing of the application changes       *)
(* between the two calls, so the pair is one request in flight.            *)
(***************************************************************************)
usePdfBackendTiming(s) == s.pdfTextPositions /\ s.pdfDoc

processAndQueueChunk(s, chunkIndex) ==
    IF chunkIndex >= s.allTextChunks.len \/ chunkIndex < 0 THEN s
    ELSE [s EXCEPT !.pending = @ \cup
                      {[page |-> s.allTextChunks.page, idx |-> chunkIndex,
                        timed |-> usePdfBackendTiming(s)]},
                   !.h_requested = @ \cup {chunkIndex},
                   !.h_requestedTwice = @ \cup ({chunkIndex} \cap s.h_requested),
                   !.h_stopped = FALSE]

(***************************************************************************)
(* playAudioQueue, up to the await of audioPlayer.play().                  *)
(***************************************************************************)
pausedReturn(s) == s.isPaused

playAudioQueue(s) ==
    IF pausedReturn(s) THEN s
    ELSE IF QueueAt(s, s.currentChunkIndex) = NoAudio
         THEN updatePlayerUI(s, "BUFFERING")
    ELSE LET currentAudio == QueueAt(s, s.currentChunkIndex)
             s1 == updatePlayerUI(s, "PLAYING")
             s2 == IF s1.pdfDoc
                   THEN IF s1.pdfTextPositions /\ currentAudio.timing THEN s1
                        ELSE highlightPdfChunk(s1, ChunkOf(currentAudio))
                   ELSE highlightChunk(s1, ChunkOf(currentAudio))
         IN [s2 EXCEPT !.audioSrc = ChunkOf(currentAudio),
                       !.audioState = "starting",
                       !.currentTime = NoTime,
                       !.pendingPlays = @ \cup
                            {[page |-> currentAudio.page, idx |-> currentAudio.idx,
                              slot |-> s.currentChunkIndex,
                              retries |-> currentAudio.retries]},
                       !.h_endedWaiting = FALSE]

(***************************************************************************)
(* startSpeechGeneration: up to the await of splitTextIntoChunksAsync,     *)
(* and after it.  visible is the page getCurrentMainVisiblePage returns.   *)
(***************************************************************************)
startSpeechGeneration(s, visible) ==
    LET s1 == updatePlayerUI(s, "BUFFERING")
        s2 == IF s1.currentReadingPage = 0
              THEN [s1 EXCEPT !.currentReadingPage = visible] ELSE s1
    IN [s2 EXCEPT !.splits = @ \cup {s2.currentReadingPage}]

\* a buffer of a single chunk
singleChunkBuffer(n) == Min(1, n)

initialBufferSize(n) == Min(InitialBuffer, n)

RECURSIVE queueInitial(_, _, _)
queueInitial(s, i, n) ==
    IF i >= n THEN s ELSE queueInitial(processAndQueueChunk(s, i), i + 1, n)

startSpeechGenerationSplit(s, p) ==
    LET s1 == [s EXCEPT !.splits = @ \ {p},
                        !.allTextChunks = [page |-> p, len |-> PageLen(s, p)],
                        !.h_requested = {}, !.h_requestedTwice = {}]
    IN IF PageLen(s, p) = 0 THEN s1
       ELSE queueInitial([s1 EXCEPT !.audioQueue = EmptyQueue], 0,
                         initialBufferSize(PageLen(s, p)))

(***************************************************************************)
(* handlePageChange(1), followed by the startSpeechGeneration it calls.    *)
(* The page container holds the pages 1..lastAvailablePage.  Reading       *)
(* dataset of a null currentReadingPage throws before anything is changed. *)
(***************************************************************************)
handlePageChange(s) ==
    IF s.currentReadingPage = 0 THEN s
    ELSE LET finishedPageNum == s.currentReadingPage
             last == s.lastAvailablePage
             s1 == [s EXCEPT !.currentChunkIndex = 0,
                             !.h_done = {}, !.h_endedWaiting = FALSE]
             s2 == IF finishedPageNum + 1 <= last
                   THEN [s1 EXCEPT !.currentReadingPage = finishedPageNum + 1]
                   ELSE s1
             \* renderPage returns at once past numPages; renderTextPage
             \* appends a page even when no text is left
             rendered == IF s.pdfDoc THEN last + 1 <= s.numPages ELSE TRUE
             newLast == IF rendered THEN Min(last + 1, s.numPages + 1) ELSE last
             s3 == IF finishedPageNum >= last
                   THEN [s2 EXCEPT !.lastAvailablePage = newLast,
                                   !.currentReadingPage = newLast]
                   ELSE s2
         IN startSpeechGeneration(s3, s3.currentReadingPage)

(***************************************************************************)
(* audioPlayer.onended.                                                    *)
(***************************************************************************)
PendingFor(s, k) ==
    \E r \in s.pending : r.page = s.allTextChunks.page /\ r.idx = k

onended(s) ==
    LET s0 == [s EXCEPT !.audioState = "ended", !.h_done = @ \cup {s.audioSrc.idx}]
        s1 == clearPdfSpanHighlights(
                 [clearAllHighlights(s0) EXCEPT !.currentWordIndex = 0,
                                                !.currentWordCount = 0,
                                                !.currentPdfWordIndex = 0])
        s2 == [s1 EXCEPT !.currentChunkIndex = @ + 1]
        s3 == processAndQueueChunk(s2, s2.currentChunkIndex + 1)
    IN IF QueueAt(s3, s3.currentChunkIndex) # NoAudio THEN playAudioQueue(s3)
       ELSE LET s4 == [clearAllHighlights(s3) EXCEPT
                          !.h_endedWaiting = PendingFor(s3, s3.currentChunkIndex)]
            IN IF s4.currentChunkIndex >= s4.allTextChunks.len
               THEN handlePageChange(
                       [s4 EXCEPT !.h_endOfBook = (s4.currentReadingPage >= s4.numPages)])
               ELSE s4

(***************************************************************************)
(* playAudioQueue after the await of play().  p is the play that settled;  *)
(* its currentAudio is the queue entry while that entry is still queued.   *)
(***************************************************************************)
InQueue(s, p) ==
    /\ QueueAt(s, p.slot) # NoAudio
    /\ QueueAt(s, p.slot).page = p.page
    /\ QueueAt(s, p.slot).idx = p.idx

retriesOf(s, p) == IF InQueue(s, p) THEN QueueAt(s, p.slot).retries ELSE p.retries

mayRetry(retries) == retries < MaxRetries

skipChunk(s) ==
    LET s1 == AudioClearSrc(updatePlayerUI(s, "BUFFERING"))
        s2 == [s1 EXCEPT !.notification = "skipping"]
        s3 == unhighlightChunk(s2)
        s4 == [s3 EXCEPT !.currentChunkIndex = @ + 1,
                         !.h_done = @ \cup {s.currentChunkIndex},
                         !.h_endedWaiting = FALSE]
        s5 == processAndQueueChunk(s4, s4.currentChunkIndex + 1)
    IN IF QueueAt(s5, s5.currentChunkIndex) # NoAudio THEN playAudioQueue(s5)
       ELSE clearAllHighlights(updatePlayerUI(s5, "IDLE"))

\* the rejections of play() counted for one chunk (history)
countReject(s, p) ==
    IF s.h_rejects.page = p.page /\ s.h_rejects.idx = p.idx
    THEN [s.h_rejects EXCEPT !.n = Min(@ + 1, MaxRetries + 2)]
    ELSE [page |-> p.page, idx |-> p.idx, n |-> 1]

playRejected(s, p) ==
    LET s0 == [s EXCEPT !.pendingPlays = @ \ {p},
                        !.audioState = IF @ = "starting" THEN "idle" ELSE @,
                        !.h_rejects = countReject(s, p)]
    IN IF mayRetry(retriesOf(s0, p))
       THEN [s0 EXCEPT !.audioQueue = IF InQueue(s0, p)
                                      THEN [@ EXCEPT ![p.slot].retries = @ + 1] ELSE @,
                       !.retryTimers = Min(@ + 1, MaxTimers)]
       ELSE skipChunk(s0)

playResolved(s, p) ==
    [s EXCEPT !.pendingPlays = @ \ {p}, !.audioState = "playing"]

retryTimer(s) == playAudioQueue([s EXCEPT !.retryTimers = @ - 1])

(***************************************************************************)
(* stopAudioQueue and the chunk controls.                                  *)
(***************************************************************************)
stopAudioQueue(s) ==
    LET s1 == [s EXCEPT !.currentReadingPage = 0, !.currentChunkIndex = 0,
                        !.audioQueue = EmptyQueue,
                        !.currentPdfWordIndex = 0,
                        !.h_stopped = TRUE, !.h_done = {}, !.h_rejects = NoRejects,
                        !.h_outOfOrder = FALSE,
                        !.h_endedWaiting = FALSE, !.h_endOfBook = FALSE]
        s2 == AudioClearSrc(AudioPause(s1))
    IN updatePlayerUI(clearPdfSpanHighlights(s2), "IDLE")

NotPaused(s) == s.audioState \in {"starting", "playing"}

goToNextAudioChunk(s) ==
    IF ~s.isPlaying THEN s
    ELSE LET s1 == IF NotPaused(s) THEN AudioPause(s) ELSE s
             s2 == IF s1.pdfDoc THEN clearPdfHighlights(s1) ELSE clearAllHighlights(s1)
         IN IF s2.currentChunkIndex >= s2.allTextChunks.len - 1
            THEN handlePageChange(s2)
            ELSE LET s3 == [s2 EXCEPT !.currentChunkIndex = @ + 1,
                                      !.h_done = @ \cup {s2.currentChunkIndex},
                                      !.h_endedWaiting = FALSE]
                     s4 == processAndQueueChunk(s3, s3.currentChunkIndex)
                     s5 == processAndQueueChunk(s4, s4.currentChunkIndex + 1)
                 IN playAudioQueue(s5)

goToPreviousAudioChunk(s) ==
    IF ~s.isPlaying \/ s.currentChunkIndex <= 0 THEN s
    ELSE LET s1 == IF NotPaused(s) THEN AudioPause(s) ELSE s
             s2 == IF s1.pdfDoc THEN clearPdfHighlights(s1) ELSE clearAllHighlights(s1)
         IN playAudioQueue([s2 EXCEPT !.currentChunkIndex = @ - 1,
                                      !.h_endedWaiting = FALSE])

(***************************************************************************)
(* Pause and resume: the generate button and the Space key.                *)
(***************************************************************************)
generateBtnClick(s, visible) ==
    IF s.isPlaying
    THEN IF s.isPaused THEN AudioPlay(updatePlayerUI(s, "PLAYING"))
         ELSE AudioPause(updatePlayerUI(s, "PAUSED"))
    ELSE startSpeechGeneration(
            [s EXCEPT !.h_stopped = FALSE, !.h_endOfBook = FALSE,
                      !.notification = "none"], visible)

\* the flag is set and the audio is left playing
keydownSpaceFlagOnly(s) ==
    IF s.isPlaying /\ ~s.isPaused THEN [s EXCEPT !.isPaused = TRUE]
    ELSE IF s.isPaused THEN [AudioPlay(s) EXCEPT !.isPaused = FALSE]
    ELSE s

keydownSpace(s) ==
    IF s.isPlaying /\ ~s.isPaused THEN [AudioPause(s) EXCEPT !.isPaused = TRUE]
    ELSE IF s.isPaused THEN [AudioPlay(s) EXCEPT !.isPaused = FALSE]
    ELSE s

(***************************************************************************)
(* The .then of generateSpeechWithTiming / generateSpeech.                 *)
(***************************************************************************)
\* audioQueue.push(...): the next free slot, in the order of arrival
QueuePush(s, chunkIndex) ==
    Cardinality({k \in DOMAIN s.audioQueue : s.audioQueue[k] # NoAudio})

\* audioQueue[chunkIndex] = ...
QueueSlot(s, chunkIndex) == chunkIndex

\* the audio of a chunk arrives while that of an earlier chunk of the page,
\* not played yet, is still missing (history)
overtakes(s, r) ==
    /\ r.page = s.allTextChunks.page
    /\ \E j \in 0..(r.idx - 1) : QueueAt(s, j) = NoAudio /\ j \notin s.h_done

startsOnArrival(s, chunkIndex) ==
    ~s.isPlaying /\ chunkIndex = s.currentChunkIndex

audioReady(s, r, timing) ==
    LET s1 == [s EXCEPT !.audioQueue[QueueSlot(s, r.idx)] =
                           [page |-> r.page, idx |-> r.idx, retries |-> 0,
                            timing |-> timing],
                        !.h_outOfOrder = @ \/ overtakes(s, r)]
    IN IF startsOnArrival(s1, r.idx) THEN playAudioQueue(s1) ELSE s1

\* generateSpeech resolved with no URL (or was rejected): nothing is queued
audioFailed(s, r) ==
    [s EXCEPT !.h_endedWaiting = IF r.page = s.allTextChunks.page
                                    /\ r.idx = s.currentChunkIndex THEN FALSE ELSE @]

\* outcome: "timing" (audio with word timings), "regular" (audio only) or
\* "failed"
Outcomes(r) == IF r.timed THEN {"timing", "regular", "failed"}
               ELSE {"regular", "failed"}

requestResolved(s, r, outcome) ==
    LET s0 == [s EXCEPT !.pending = @ \ {r}]
    IN IF outcome = "failed" THEN audioFailed(s0, r)
       ELSE audioReady(s0, r, outcome = "timing")

(***************************************************************************)
(* audioPlayer.ontimeupdate: the word highlight follows the playback.      *)
(***************************************************************************)
\* Math.floor(progress * count) with progress = currentTime / duration
targetWordIndex(currentTime, duration, count) == (currentTime * count) \div duration

\* the first word whose interval holds currentTime, skip words included
findAnyWord(words, currentTime) ==
    LET found == {i \in 1..Len(words) :
                     /\ currentTime >= words[i].startTime
                     /\ currentTime < words[i].endTime}
    IN IF found = {} THEN -1
       ELSE (CHOOSE i \in found : \A j \in found : i <= j) - 1

\* timingData.words.find(...): the first word, in index order (from 0), whose
\* interval holds currentTime and that is not marked skip; -1 for undefined
findCurrentWord(words, currentTime) ==
    LET found == {i \in 1..Len(words) :
                     /\ currentTime >= words[i].startTime
                     /\ currentTime < words[i].endTime
                     /\ ~words[i].skip}
    IN IF found = {} THEN -1
       ELSE (CHOOSE i \in found : \A j \in found : i <= j) - 1

\* plain text: the word spans of the chunk, by the share of the audio played
textTimeUpdate(s, currentTime) ==
    LET target == targetWordIndex(currentTime, Duration(s.words), s.currentWordCount)
    IN IF s.currentWordCount > 0 /\ s.currentChunkId # NoChunk
          /\ target # s.currentWordIndex /\ target < s.currentWordCount
       THEN [s EXCEPT !.hlWord = (s.hlText = s.currentChunkId),
                      !.currentWordIndex = target]
       ELSE s

\* PDF with the timing data of the backend: the span of the word found
preciseTimeUpdate(s, currentTime) ==
    LET index == findCurrentWord(s.words, currentTime)
    IN IF index >= 0 THEN [s EXCEPT !.hlPdfWord = TRUE, !.hlPdfWordIndex = index]
       ELSE s

\* the .backend-text-span elements of the page being read: the words of its
\* chunks
textSpans(s) ==
    IF s.pdfTextPositions /\ s.currentReadingPage # 0
    THEN Len(s.words) * PageLen(s, s.currentReadingPage)
    ELSE 0

\* PDF without timing data for the chunk: the spans of the page, by the
\* share of the audio played
fallbackTimeUpdate(s, currentTime) ==
    LET target == targetWordIndex(currentTime, Duration(s.words), textSpans(s))
    IN IF textSpans(s) > 0 /\ target # s.currentPdfWordIndex /\ target < textSpans(s)
       THEN [s EXCEPT !.hlPdfWord = TRUE, !.hlPdfWordIndex = target,
                      !.currentPdfWordIndex = target]
       ELSE s

ontimeupdate(s, currentTime) ==
    IF ~s.enableWordHighlight THEN s
    ELSE LET s1 == [s EXCEPT !.currentTime = currentTime]
         IN IF ~s.pdfDoc THEN textTimeUpdate(s1, currentTime)
            ELSE IF QueueAt(s, s.currentChunkIndex).timing
                 THEN preciseTimeUpdate(s1, currentTime)
                 ELSE fallbackTimeUpdate(s1, currentTime)

(***************************************************************************)
(* pdfBackend.js: the interactive text layer.  layer[w] is the             *)
(* .backend-text-span with data-word-idx = w: whether it has the classes   *)
(* 'highlighted', the highlight colour class and 'current-word-highlight', *)
(* and its background ("transparent", "chunk" for rgba(254, 240, 138,      *)
(* 0.5), "word" for the word colour).                                      *)
(***************************************************************************)
LayerWords == 0..(MaxWords - 1)

PlainSpan == [highlighted |-> FALSE, colorClass |-> FALSE, currentWord |-> FALSE,
              backgroundColor |-> "transparent"]

backendClearAllHighlights(s) ==
    [s EXCEPT !.layer = [w \in LayerWords |->
        IF s.layer[w].highlighted
        THEN [s.layer[w] EXCEPT !.highlighted = FALSE, !.currentWord = FALSE,
                                !.backgroundColor = "transparent"]
        ELSE s.layer[w]]]

backendHighlightChunk(s, wordStart, wordEnd) ==
    LET s1 == backendClearAllHighlights(s)
    IN [s1 EXCEPT !.layer = [w \in LayerWords |->
           IF w >= wordStart /\ w < wordEnd
           THEN [s1.layer[w] EXCEPT !.highlighted = TRUE, !.colorClass = TRUE,
                                    !.backgroundColor = "chunk"]
           ELSE s1.layer[w]]]

backendHighlightWord(s, wordIndex) ==
    IF wordIndex \notin LayerWords THEN s
    ELSE LET current == {w \in LayerWords : s.layer[w].currentWord}
             prevHighlighted == CHOOSE w \in current : \A v \in current : w <= v
             s1 == IF current = {} THEN s
                   ELSE [s EXCEPT !.layer[prevHighlighted] =
                            [@ EXCEPT !.currentWord = FALSE,
                                      !.backgroundColor = "chunk"]]
         IN [s1 EXCEPT !.layer[wordIndex] = [@ EXCEPT !.currentWord = TRUE,
                                                      !.backgroundColor = "word"]]

(***************************************************************************)
(* The web app after a book has been opened.                               *)
(***************************************************************************)
InitApp(pdf, positions, pages) ==
    [pdfDoc |-> pdf, pdfTextPositions |-> positions, numPages |-> pages,
     isPlaying |-> FALSE, isPaused |-> FALSE, playerUI |-> "IDLE",
     currentChunkIndex |-> 0, allTextChunks |-> NoChunks,
     audioQueue |-> EmptyQueue,
     currentReadingPage |-> 0, lastAvailablePage |-> 1,
     pending |-> {}, splits |-> {},
     audioSrc |-> NoChunk, audioState |-> "idle", pendingPlays |-> {},
     retryTimers |-> 0,
     hlText |-> NoChunk, hlWord |-> FALSE,
     hlPdfLayer |-> NoChunk, hlPdfSpans |-> NoChunk, hlPdfWord |-> FALSE,
     hlPdfWordIndex |-> 0,
     enableWordHighlight |-> TRUE, words |-> OneWord, currentTime |-> NoTime,
     currentWordIndex |-> 0, currentWordCount |-> 0, currentChunkId |-> NoChunk,
     currentPdfWordIndex |-> 0,
     layer |-> [w \in LayerWords |-> PlainSpan],
     notification |-> "none",
     h_done |-> {}, h_requested |-> {}, h_requestedTwice |-> {}, h_endedWaiting |-> FALSE,
     h_endOfBook |-> FALSE, h_stopped |-> FALSE, h_rejects |-> NoRejects,
     h_outOfOrder |-> FALSE]

(***************************************************************************)
(* The browser extension (background.js).  An invocation of startReading   *)
(* or readTextNodes is numbered; inv[k] is where invocation k stands:      *)
(* "delay" (the 100 ms wait of startReading), "tts" (awaiting              *)
(* requestTTSWithTiming), "play" (awaiting playChunkWithTiming for chunk   *)
(* i), "done".  The chunks of state.chunks are those invocation sess       *)
(* obtained.  An audio is named by its chunk and the invocation that       *)
(* created it.                                                             *)
(***************************************************************************)
Sessions == 1..MaxSessions

NoExtChunks == [sess |-> 0, len |-> 0]
NoExtChunk == [sess |-> 0, idx |-> 0]
NoExtAudio == [sess |-> 0, idx |-> 0, by |-> 0]

Idle == [pc |-> "none", i |-> 0, audio |-> NoExtAudio]
Done == [pc |-> "done", i |-> 0, audio |-> NoExtAudio]

(***************************************************************************)
(* The page the extension reads.  Its readable elements are numbered in    *)
(* document order; element el holds the text of ChunksIn(el) chunks, every *)
(* chunk having the words of the timing data.  A reading is given text     *)
(* nodes: those of the whole page (extractPageText), whose text makes      *)
(* MaxExtChunks chunks, or the one of a single element (the selection, or  *)
(* the target of the read-from-here button).  All chunks of a reading get  *)
(* the element of its first text node (textNodes[0].element), so chunk i   *)
(* lies in the text of its element when i < ChunksIn(element) and in the   *)
(* text of a later element otherwise.                                      *)
(*                                                                         *)
(* The content of an element (its innerHTML) is: whether its words are     *)
(* wrapped in span.owtts-word, the classes of each word span, and the      *)
(* spans with data-owtts-highlight="chunk" that surround the text of a     *)
(* chunk (range), with their classes; listed marks the span that           *)
(* state.highlightedElements refers to.  A class is a kind and, for the    *)
(* colour classes, the colour.  A node reference is live while the node is *)
(* in the document; assigning innerHTML replaces the nodes of the element. *)
(***************************************************************************)
Elements == 1..NumElements

ChunksIn(el) == el

NoReading == [element |-> 0, chunks |-> 0]

\* textNodes of one element: its element and the chunks its text makes
ElementReadings == {[element |-> el, chunks |-> ChunksIn(el)] : el \in Elements}

\* textNodes of the page: the first readable element, the chunks of the page
PageReading == [element |-> 1, chunks |-> MaxExtChunks]

Colors == {"yellow", "green"}

Settings ==
    [wordHighlight : BOOLEAN, highlightColor : Colors,
     wordHighlightColor : Colors \cup {""}]

\* background.js:546  the settings of a fresh installation
DefaultSettings ==
    [wordHighlight |-> TRUE, highlightColor |-> "yellow",
     wordHighlightColor |-> "yellow"]

Cls(kind, v) == [kind |-> kind, v |-> v]

\* 'owtts-chunk-highlight', `owtts-color-${color}`
ChunkClasses(color) == {Cls("owtts-chunk-highlight", ""), Cls("owtts-color", color)}

\* 'owtts-word-highlight', `owtts-word-color-${wordColor}`
WordClasses(color) == {Cls("owtts-word-highlight", ""), Cls("owtts-word-color", color)}

\* classList.remove of every class of the kinds given
Without(classes, kinds) == {c \in classes : c.kind \notin kinds}

ChunkKinds == {"owtts-chunk-highlight", "owtts-color"}

WordKinds == {"owtts-word-highlight", "owtts-word-color", "owtts-color"}

ElementWords(e, el) == ChunksIn(el) * Len(e.timing)

PlainText(n) == [words |-> FALSE, cls |-> [p \in 0..(n - 1) |-> {}], wraps |-> {}]

NoRef == [kind |-> "none", el |-> 0, pos |-> 0, live |-> FALSE]
ElementRef(el) == [kind |-> "element", el |-> el, pos |-> 0, live |-> TRUE]
WordRef(el, pos) == [kind |-> "word", el |-> el, pos |-> pos, live |-> TRUE]
WrapRef(el, range) == [kind |-> "wrap", el |-> el, pos |-> range, live |-> TRUE]

\* the classes of a node (none can be seen on a node out of the document)
ClassesOf(e, r) ==
    IF ~r.live THEN {}
    ELSE IF r.kind = "element" THEN e.dom[r.el].classes
    ELSE IF r.kind = "word" THEN e.dom[r.el].content.cls[r.pos]
    ELSE UNION {w.cls : w \in {x \in e.dom[r.el].content.wraps :
                                   x.listed /\ x.range = r.pos}}

SetClasses(e, r, classes) ==
    IF ~r.live THEN e
    ELSE IF r.kind = "element" THEN [e EXCEPT !.dom[r.el].classes = classes]
    ELSE IF r.kind = "word"
         THEN [e EXCEPT !.dom[r.el].content.cls[r.pos] = classes]
    ELSE [e EXCEPT !.dom[r.el].content.wraps =
                      {IF w.listed /\ w.range = r.pos
                       THEN [w EXCEPT !.cls = classes] ELSE w : w \in @}]

\* the element of a chunk: that of the first text node of its reading
ElementOf(e, c) == e.textNodes[c.sess].element

\* whether chunk.text is found in the text of the element
InElement(e, c) == c.idx < ChunksIn(ElementOf(e, c))

\* el.innerHTML = el.dataset.owttsOriginal, and the data attributes deleted
restoreOriginal(e, el) ==
    LET detach(r) == IF r.el = el /\ r.kind \in {"word", "wrap"}
                     THEN [r EXCEPT !.live = FALSE] ELSE r
    IN [e EXCEPT !.dom[el] = [@ EXCEPT !.content = e.dom[el].original,
                                       !.original = PlainText(ElementWords(e, el)),
                                       !.hasOriginal = FALSE,
                                       !.processed = FALSE,
                                       !.chunkId = -1,
                                       !.wordOffset = 0],
                 !.highlightedElements = {detach(r) : r \in @},
                 !.currentWordElement = detach(@)]

\* the forEach over state.highlightedElements of highlightChunk and
\* clearHighlights: a chunk span is unwrapped, any other node loses the
\* chunk classes
clearChunkHighlights(e) ==
    LET live == {r \in e.highlightedElements : r.live}
        cleared(el) ==
            LET d == e.dom[el]
            IN [d EXCEPT
                  !.classes = IF ElementRef(el) \in live
                              THEN Without(@, ChunkKinds) ELSE @,
                  !.content =
                      [words |-> d.content.words,
                       cls |-> [p \in DOMAIN d.content.cls |->
                                   IF WordRef(el, p) \in live
                                   THEN Without(d.content.cls[p], ChunkKinds)
                                   ELSE d.content.cls[p]],
                       wraps |-> {w \in d.content.wraps : ~w.listed}]]
    IN [e EXCEPT !.dom = [el \in Elements |-> cleared(el)],
                 !.highlightedElements = {}]

\* the word highlight taken off state.currentWordElement
clearWordHighlight(e) ==
    IF e.currentWordElement = NoRef THEN e
    ELSE [SetClasses(e, e.currentWordElement,
                     Without(ClassesOf(e, e.currentWordElement), WordKinds))
          EXCEPT !.currentWordElement = NoRef]

\* background.js highlightChunk
extHighlightChunk(e, c) ==
    LET e1 == clearWordHighlight(clearChunkHighlights(e))
        el == ElementOf(e, c)
        d == e1.dom[el]
        classes == ChunkClasses(e.settings.highlightColor)
        spans == {p \in DOMAIN d.content.cls :
                     /\ d.content.words
                     /\ p >= d.wordOffset /\ p < d.wordOffset + Len(e.timing)}
    IN IF d.processed
       THEN [e1 EXCEPT !.dom[el].content.cls =
                           [p \in DOMAIN @ |-> IF p \in spans THEN @[p] \cup classes
                                               ELSE @[p]],
                       !.highlightedElements = {WordRef(el, p) : p \in spans}]
       ELSE IF ~InElement(e, c)
            THEN [e1 EXCEPT !.dom[el].classes = @ \cup classes,
                            !.highlightedElements = {ElementRef(el)}]
       ELSE [e1 EXCEPT !.dom[el].content.wraps =
                           @ \cup {[range |-> c.idx, cls |-> classes, listed |-> TRUE]},
                       !.highlightedElements = {WrapRef(el, c.idx)}]

\* the words of the element's text before chunk.startOffset
wordsBeforeChunk(e, c) ==
    Min(c.idx * Len(e.timing), ElementWords(e, ElementOf(e, c)))

\* background.js wrapWordsInSpans
wrapWordsInSpans(e, el) ==
    [e EXCEPT !.dom[el] =
        [@ EXCEPT !.original = [e.dom[el].content EXCEPT
                                   !.wraps = {[w EXCEPT !.listed = FALSE] : w \in @}],
                  !.hasOriginal = TRUE,
                  !.processed = TRUE,
                  !.content = [@ EXCEPT !.words = TRUE]]]

\* prepareWordHighlighting without the restore of the previous element
prepareWithoutRestore(e, c) ==
    LET el == ElementOf(e, c)
        currentChunkId == e.currentChunkIndex
        e2 == IF e.dom[el].processed /\ e.dom[el].chunkId # currentChunkId
              THEN [e EXCEPT !.dom[el].wordOffset = wordsBeforeChunk(e, c),
                             !.dom[el].chunkId = currentChunkId]
              ELSE e
    IN IF e2.dom[el].processed THEN e2
       ELSE [wrapWordsInSpans(e2, el) EXCEPT
                !.dom[el].chunkId = currentChunkId,
                !.dom[el].wordOffset = wordsBeforeChunk(e, c),
                !.previousChunkElement = el]

\* background.js prepareWordHighlighting
prepareWordHighlighting(e, c) ==
    LET el == ElementOf(e, c)
        prev == e.previousChunkElement
        e1 == IF prev # 0 /\ prev # el /\ e.dom[prev].hasOriginal
              THEN restoreOriginal(e, prev) ELSE e
        currentChunkId == e.currentChunkIndex
        e2 == IF e1.dom[el].processed /\ e1.dom[el].chunkId # currentChunkId
              THEN [e1 EXCEPT !.dom[el].wordOffset = wordsBeforeChunk(e, c),
                              !.dom[el].chunkId = currentChunkId]
              ELSE e1
    IN IF e2.dom[el].processed THEN e2
       ELSE [wrapWordsInSpans(e2, el) EXCEPT
                !.dom[el].chunkId = currentChunkId,
                !.dom[el].wordOffset = wordsBeforeChunk(e, c),
                !.previousChunkElement = el]

\* the previous word loses the word highlight and gets nothing back
highlightWordUnstyled(e, c, wordIndex) ==
    LET cur == e.currentWordElement
        e1 == IF cur = NoRef THEN e
              ELSE SetClasses(e, cur, Without(ClassesOf(e, cur), WordKinds))
        el == ElementOf(e, c)
        d == e1.dom[el]
        actualWordIndex == d.wordOffset + wordIndex
        wordColor == IF e.settings.wordHighlightColor # ""
                     THEN e.settings.wordHighlightColor
                     ELSE e.settings.highlightColor
    IN IF ~e.settings.wordHighlight THEN e1
       ELSE IF d.content.words /\ actualWordIndex \in DOMAIN d.content.cls
            THEN [e1 EXCEPT !.dom[el].content.cls[actualWordIndex] =
                                Without(@, ChunkKinds) \cup WordClasses(wordColor),
                            !.currentWordElement = WordRef(el, actualWordIndex)]
       ELSE e1

\* background.js highlightWord
extHighlightWord(e, c, wordIndex) ==
    LET cur == e.currentWordElement
        e1 == IF cur = NoRef THEN e
              ELSE SetClasses(e, cur,
                      Without(ClassesOf(e, cur), WordKinds) \cup
                      (IF cur.kind = "word"
                       THEN ChunkClasses(e.settings.highlightColor) ELSE {}))
        el == ElementOf(e, c)
        d == e1.dom[el]
        actualWordIndex == d.wordOffset + wordIndex
        wordColor == IF e.settings.wordHighlightColor # ""
                     THEN e.settings.wordHighlightColor
                     ELSE e.settings.highlightColor
    IN IF ~e.settings.wordHighlight THEN e1
       ELSE IF d.content.words /\ actualWordIndex \in DOMAIN d.content.cls
            THEN [e1 EXCEPT !.dom[el].content.cls[actualWordIndex] =
                                Without(@, ChunkKinds) \cup WordClasses(wordColor),
                            !.currentWordElement = WordRef(el, actualWordIndex)]
       ELSE e1

\* background.js clearHighlights
clearHighlights(e) ==
    LET e1 == clearWordHighlight(clearChunkHighlights(e))
        restored(el) ==
            LET d == e1.dom[el]
            IN IF d.processed /\ d.hasOriginal
               THEN [d EXCEPT !.content = d.original,
                              !.original = PlainText(ElementWords(e, el)),
                              !.hasOriginal = FALSE, !.processed = FALSE,
                              !.chunkId = -1, !.wordOffset = 0]
               ELSE d
    IN [e1 EXCEPT !.dom = [el \in Elements |-> restored(el)],
                  !.highlighted = NoExtChunk]

\* background.js stopReading; the blob URLs are revoked 500 ms later
stopReading(e) ==
    LET e1 == [e EXCEPT !.isReading = FALSE,
                        !.playing = @ \ {e.currentAudio},
                        !.currentAudio = NoExtAudio]
    IN [clearHighlights(e1) EXCEPT !.revokeTimers = Min(@ + 1, MaxTimers),
                                   !.chunks = NoExtChunks,
                                   !.currentChunkIndex = 0,
                                   !.previousChunkElement = 0,
                                   !.menuStatus = "Ready to read"]

\* the timer of stopReading
revokeBlobUrls(e) == [e EXCEPT !.audioBlobUrls = {}, !.revokeTimers = @ - 1]

\* background.js playChunkWithTiming(state.chunks[i], i), up to the promise
\* it returns: the words are wrapped, the chunk is highlighted, a new Audio
\* is created and played
playChunkWithTiming(e, k, i) ==
    LET audio == [sess |-> e.chunks.sess, idx |-> i, by |-> k]
        chunk == [sess |-> e.chunks.sess, idx |-> i]
        e1 == IF e.settings.wordHighlight THEN prepareWordHighlighting(e, chunk)
              ELSE e
    IN [extHighlightChunk(e1, chunk) EXCEPT
                 !.highlighted = chunk,
                 !.currentAudio = audio,
                 !.playing = @ \cup {audio},
                 !.frame[k] = [currentTime |-> NoTime, wordIndex |-> -1,
                               lastWordIndex |-> -1],
                 !.inv[k] = [pc |-> "play", i |-> i, audio |-> audio]]

\* readTextNodes: one turn of the loop over state.chunks, and what follows
\* the loop
readLoop(e, k, i) ==
    IF i < e.chunks.len /\ e.isReading
    THEN playChunkWithTiming([e EXCEPT !.currentChunkIndex = i], k, i)
    ELSE stopReading([e EXCEPT !.inv[k] = Done])

\* readTextNodes, up to the await of requestTTSWithTiming
readTextNodes(e, k) ==
    IF e.isReading THEN stopReading([e EXCEPT !.inv[k] = Done])
    ELSE [e EXCEPT !.isReading = TRUE, !.currentChunkIndex = 0,
                   !.chunks = NoExtChunks,
                   !.menuStatus = "Processing text...",
                   !.inv[k] = [pc |-> "tts", i |-> 0, audio |-> NoExtAudio]]

\* a response of no chunk handled as any other: the loop is not entered
ttsResolvedQuiet(e, k, n) ==
    readLoop([e EXCEPT !.chunks = [sess |-> k, len |-> n],
                       !.noChunks[k] = (n = 0),
                       !.audioBlobUrls = @ \cup {k},
                       !.menuStatus = "Reading chunks..."], k, 0)

\* readTextNodes after requestTTSWithTiming returned n chunks (their blob
\* URLs are recorded in state.audioBlobUrls); no chunk is an error, thrown
\* and caught in the function itself.  noChunks[k] records that the
\* response of invocation k had no chunk.
ttsResolved(e, k, n) ==
    IF n = 0
    THEN [stopReading([e EXCEPT !.inv[k] = Done, !.noChunks[k] = TRUE]) EXCEPT
             !.menuStatus = "Error: No readable content found"]
    ELSE readLoop([e EXCEPT !.chunks = [sess |-> k, len |-> n],
                            !.audioBlobUrls = @ \cup {k},
                            !.menuStatus = "Reading chunks..."], k, 0)

\* requestTTSWithTiming or playChunkWithTiming rejected: the catch block,
\* which shows 'Error: ' and the message of the error
readFailed(e, k) ==
    [stopReading([e EXCEPT !.inv[k] = Done, !.playing = @ \ {e.inv[k].audio}])
     EXCEPT !.menuStatus = "Error: Backend error"]

\* the ended event of the audio of invocation k
audioEnded(e, k) ==
    readLoop([e EXCEPT !.playing = @ \ {e.inv[k].audio}], k, e.inv[k].i + 1)

\* background.js startReading, up to its first await
startReading(e, k) ==
    IF e.isReading
    THEN [stopReading(e) EXCEPT !.inv[k] = [pc |-> "delay", i |-> 0,
                                            audio |-> NoExtAudio]]
    ELSE readTextNodes(e, k)

(***************************************************************************)
(* updateWordHighlight, the animation-frame callback of                    *)
(* playChunkWithTiming: the word of the timing data at audio.currentTime.  *)
(* Indices are those of the code (from 0); -1 is "no word".  frame[k]      *)
(* keeps, for the audio of invocation k, the time and the word index of    *)
(* the last frame, and lastWordIndex.                                      *)
(***************************************************************************)
RECURSIVE previousNonSkip(_, _)
\* for (let j = i - 1; j >= 0; j--) if (!words[j].skip) { wordIndex = j; break; }
previousNonSkip(words, j) ==
    IF j < 0 THEN -1
    ELSE IF ~words[j + 1].skip THEN j
    ELSE previousNonSkip(words, j - 1)

\* currentTime >= wordTiming.startTime && currentTime <= wordTiming.endTime
inInterval(wordTiming, currentTime) ==
    currentTime >= wordTiming.startTime /\ currentTime <= wordTiming.endTime

RECURSIVE scanWords(_, _, _)
\* the loop over chunkTimingData.words, from index i
scanWords(words, currentTime, i) ==
    IF i >= Len(words) THEN -1
    ELSE IF words[i + 1].skip THEN scanWords(words, currentTime, i + 1)
    ELSE IF inInterval(words[i + 1], currentTime) THEN i
    ELSE IF currentTime < words[i + 1].startTime
         THEN previousNonSkip(words, i - 1)
    ELSE scanWords(words, currentTime, i + 1)

\* the word index updateWordHighlight computes
wordIndexAt(words, currentTime) ==
    LET wordIndex == scanWords(words, currentTime, 0)
    IN IF wordIndex = -1 /\ Len(words) > 0
          /\ currentTime > words[Len(words)].endTime
       THEN previousNonSkip(words, Len(words) - 1)
       ELSE wordIndex

\* one animation frame of the audio of invocation k
updateWordHighlight(e, k, currentTime) ==
    IF ~e.settings.wordHighlight THEN e
    ELSE LET wordIndex == wordIndexAt(e.timing, currentTime)
             chunk == [sess |-> e.inv[k].audio.sess, idx |-> e.inv[k].audio.idx]
             e1 == [e EXCEPT !.frame[k].currentTime = currentTime,
                             !.frame[k].wordIndex = wordIndex]
         IN IF wordIndex # e.frame[k].lastWordIndex /\ wordIndex >= 0
            THEN extHighlightWord([e1 EXCEPT !.frame[k].lastWordIndex = wordIndex],
                                  chunk, wordIndex)
            ELSE e1

(***************************************************************************)
(* The updateSettings message.                                             *)
(***************************************************************************)
\* the chunk classes taken off the nodes of state.highlightedElements, the
\* chunk spans left in place
stripChunkClasses(e) ==
    LET live == {r \in e.highlightedElements : r.live}
        stripped(el) ==
            LET d == e.dom[el]
            IN [d EXCEPT
                  !.classes = IF ElementRef(el) \in live
                              THEN Without(@, ChunkKinds) ELSE @,
                  !.content =
                      [words |-> d.content.words,
                       cls |-> [p \in DOMAIN d.content.cls |->
                                   IF WordRef(el, p) \in live
                                   THEN Without(d.content.cls[p], ChunkKinds)
                                   ELSE d.content.cls[p]],
                       wraps |-> {IF w.listed
                                  THEN [w EXCEPT !.cls = Without(@, ChunkKinds),
                                                 !.listed = FALSE]
                                  ELSE w : w \in d.content.wraps}]]
    IN [e EXCEPT !.dom = [el \in Elements |-> stripped(el)],
                 !.highlightedElements = {}]

updateSettings(e, settings) ==
    LET e1 == [e EXCEPT !.settings = settings]
        wordColor == IF settings.wordHighlightColor # ""
                     THEN settings.wordHighlightColor ELSE settings.highlightColor
    IN IF ~e1.isReading \/ e1.currentChunkIndex >= e1.chunks.len THEN e1
       ELSE LET currentChunk == [sess |-> e1.chunks.sess, idx |-> e1.currentChunkIndex]
                e2 == extHighlightChunk(stripChunkClasses(e1), currentChunk)
                cur == e2.currentWordElement
            IN IF cur = NoRef THEN e2
               ELSE SetClasses(e2, cur,
                       Without(ClassesOf(e2, cur), {"owtts-word-color"})
                       \cup {Cls("owtts-word-color", wordColor)})

(***************************************************************************)
(* splitIntoChunks of the extension.  A text is a sequence of characters;  *)
(* three characters stand for the classes the function tells apart: "a" a  *)
(* character of a word, " " whitespace, "." a sentence terminator (one of  *)
(* . ! ?).  Offsets are those of the code (from 0).                        *)
(***************************************************************************)
Chars == {"a", " ", "."}

RECURSIVE TextsOfLen(_)
TextsOfLen(n) ==
    IF n = 0 THEN {<<>>}
    ELSE {Append(t, ch) : t \in TextsOfLen(n - 1), ch \in Chars}

\* String.prototype.trim
RECURSIVE trim(_)
trim(s) ==
    IF s = <<>> THEN s
    ELSE IF Head(s) = " " THEN trim(Tail(s))
    ELSE IF s[Len(s)] = " " THEN trim(SubSeq(s, 1, Len(s) - 1))
    ELSE s

\* every text, the empty one and those of whitespace included
AnyTexts == UNION {TextsOfLen(n) : n \in 0..MaxText}

\* the text of a text node: extractPageText, extractSelection and the click
\* handlers pass textContent.trim() and leave out an empty text
NodeTexts ==
    {t \in UNION {TextsOfLen(n) : n \in 1..MaxText} : trim(t) = t}

RECURSIVE NodeLists(_)
NodeLists(n) ==
    IF n = 0 THEN {<<>>}
    ELSE NodeLists(n - 1) \cup
         {Append(l, t) : l \in {x \in NodeLists(n - 1) : Len(x) = n - 1},
                         t \in NodeTexts}

\* the end (exclusive, from 1) of the run of characters from p that are
\* terminators (term) or are not
RECURSIVE runEnd(_, _, _)
runEnd(text, p, term) ==
    IF p > Len(text) \/ (text[p] = ".") # term THEN p
    ELSE runEnd(text, p + 1, term)

\* text.match(/[^.!?]+[.!?]+/g): the successive matches from position p
RECURSIVE matchSentences(_, _)
matchSentences(text, p) ==
    IF p > Len(text) THEN <<>>
    ELSE LET q == runEnd(text, p, FALSE)
             r == runEnd(text, q, TRUE)
         IN IF q = p \/ r = q THEN matchSentences(text, p + 1)
            ELSE <<SubSeq(text, p, r - 1)>> \o matchSentences(text, r)

\* text.match(/[^.!?]+[.!?]+/g) || [text]
sentencesOf(text) ==
    IF matchSentences(text, 1) = <<>> THEN <<text>> ELSE matchSentences(text, 1)

\* text.indexOf(sub, from), -1 when sub does not occur from there on
RECURSIVE indexOf(_, _, _)
indexOf(text, sub, from) ==
    IF from + Len(sub) > Len(text) THEN -1
    ELSE IF SubSeq(text, from + 1, from + Len(sub)) = sub THEN from
    ELSE indexOf(text, sub, from + 1)

\* s.split(/\s+/).filter(w => w.length > 0)
RECURSIVE wordsOf(_)
wordsOf(s) ==
    IF s = <<>> THEN <<>>
    ELSE IF Head(s) = " " THEN wordsOf(Tail(s))
    ELSE LET e == CHOOSE i \in 1..(Len(s) + 1) :
                      /\ i > Len(s) \/ s[i] = " "
                      /\ \A j \in 1..(i - 1) : s[j] # " "
         IN <<SubSeq(s, 1, e - 1)>> \o wordsOf(SubSeq(s, e, Len(s)))

\* the chunk pushed for the text given, looked up in the node's text from
\* startOffset; element is the index of the text node
chunkAt(element, text, chunkText, startOffset) ==
    [text |-> chunkText, element |-> element, words |-> wordsOf(chunkText),
     startOffset |-> indexOf(text, chunkText, startOffset),
     endOffset |-> indexOf(text, chunkText, startOffset) + Len(chunkText)]

\* the text pushed as one chunk, whatever its length
packWholeText(element, text, chunkSize, i, currentChunk, startOffset) ==
    <<chunkAt(element, text, text, startOffset)>>

\* the loop over the sentences of a text longer than chunkSize, from
\* sentence i, and the push after the loop
RECURSIVE packSentences(_, _, _, _, _, _)
packSentences(element, text, chunkSize, i, currentChunk, startOffset) ==
    LET sentences == sentencesOf(text)
    IN IF i > Len(sentences)
       THEN IF currentChunk # <<>>
            THEN <<chunkAt(element, text, trim(currentChunk), startOffset)>>
            ELSE <<>>
       ELSE IF Len(currentChunk \o sentences[i]) <= chunkSize
            THEN packSentences(element, text, chunkSize, i + 1,
                               currentChunk \o sentences[i], startOffset)
       ELSE IF currentChunk # <<>>
            THEN LET c == chunkAt(element, text, trim(currentChunk), startOffset)
                 IN <<c>> \o packSentences(element, text, chunkSize, i + 1,
                                           sentences[i], c.endOffset)
       ELSE packSentences(element, text, chunkSize, i + 1, sentences[i],
                          startOffset)

\* background.js splitIntoChunks, from text node i on
RECURSIVE splitIntoChunks(_, _, _)
splitIntoChunks(textNodes, chunkSize, i) ==
    IF i > Len(textNodes) THEN <<>>
    ELSE LET text == textNodes[i]
             chunks == IF Len(text) <= chunkSize
                       THEN <<[text |-> text, element |-> i,
                               words |-> wordsOf(text),
                               startOffset |-> 0, endOffset |-> Len(text)]>>
                       ELSE packSentences(i, text, chunkSize, 1, <<>>, 0)
         IN chunks \o splitIntoChunks(textNodes, chunkSize, i + 1)

\* no call of splitIntoChunks has been made
NoSplit == [textNodes |-> <<>>, chunkSize |-> 0, chunks |-> <<>>, done |-> FALSE]

\* the extension on a page whose chunks have the timing data given
InitPage(timing, settings) ==
    [isReading |-> FALSE, currentChunkIndex |-> 0, chunks |-> NoExtChunks,
     currentAudio |-> NoExtAudio, playing |-> {}, highlighted |-> NoExtChunk,
     audioBlobUrls |-> {}, revokeTimers |-> 0,
     inv |-> [k \in Sessions |-> Idle], started |-> 0,
     settings |-> settings, timing |-> timing,
     textNodes |-> [k \in Sessions |-> NoReading],
     frame |-> [k \in Sessions |-> [currentTime |-> NoTime, wordIndex |-> -1,
                                    lastWordIndex |-> -1]],
     dom |-> [el \in Elements |->
                 [classes |-> {}, processed |-> FALSE, hasOriginal |-> FALSE,
                  original |-> PlainText(ChunksIn(el) * Len(timing)),
                  chunkId |-> -1, wordOffset |-> 0,
                  content |-> PlainText(ChunksIn(el) * Len(timing))]],
     highlightedElements |-> {}, currentWordElement |-> NoRef,
     previousChunkElement |-> 0, split |-> NoSplit,
     menuStatus |-> "Ready to read",
     noChunks |-> [k \in Sessions |-> FALSE]]

InitState == InitPage(OneWord, DefaultSettings)

\* a book of NumPages pages: plain text, a PDF, or a PDF with the text
\* positions extracted by the backend
Init ==
    /\ \E pdf \in BOOLEAN, positions \in BOOLEAN :
          /\ positions => pdf
          /\ appState = InitApp(pdf, positions, NumPages)
    /\ state = InitState

\* a book of a single page: plain text, or a PDF
InitOnePage ==
    /\ \E pdf \in BOOLEAN : appState = InitApp(pdf, FALSE, 1)
    /\ state = InitState

Commit(s) == appState' = s /\ UNCHANGED state

\* The promise of audioPlayer.play() settles before the next event is
\* delivered: the rest of playAudioQueue runs next.
Settled == appState.pendingPlays = {}

SplitDone == Settled /\ \E p \in appState.splits : Commit(startSpeechGenerationSplit(appState, p))

\* a request yields audio
RequestArrived ==
    /\ Settled
    /\ \E r \in appState.pending : \E outcome \in Outcomes(r) \ {"failed"} :
          Commit(requestResolved(appState, r, outcome))

\* a request yields nothing
RequestFailed ==
    /\ Settled
    /\ \E r \in appState.pending : Commit(requestResolved(appState, r, "failed"))

PlayResolved == \E p \in appState.pendingPlays : Commit(playResolved(appState, p))

\* the chunks whose audio the browser may refuse to start (autoplay policy,
\* undecodable file): play() is rejected
Unplayable == 0..MaxChunks

PlayRejected ==
    \E p \in appState.pendingPlays :
        /\ p.idx \in Unplayable
        /\ Commit(playRejected(appState, p))

RetryTimer == Settled /\ appState.retryTimers > 0 /\ Commit(retryTimer(appState))

AudioEnded ==
    /\ Settled
    /\ appState.audioState = "playing"
    /\ appState.currentChunkIndex <= MaxChunks
    /\ Commit(onended(appState))

TimeUpdate ==
    /\ Settled
    /\ appState.audioState = "playing"
    /\ \E currentTime \in Times(appState.words) :
          Commit(ontimeupdate(appState, currentTime))

StopBtn == Settled /\ Commit(stopAudioQueue(appState))

\* the exports of pdfBackend.js, called on a rendered text layer
BackendHighlightChunk ==
    \E wordStart \in LayerWords, wordEnd \in 1..MaxWords :
        /\ wordStart < wordEnd
        /\ Commit(backendHighlightChunk(appState, wordStart, wordEnd))

BackendHighlightWord ==
    \E wordIndex \in 0..MaxWords :
        Commit(backendHighlightWord(appState, wordIndex))

BackendClearAll == Commit(backendClearAllHighlights(appState))

NextChunkBtn == Settled /\ appState.isPlaying /\ Commit(goToNextAudioChunk(appState))

PrevChunkBtn ==
    /\ Settled
    /\ appState.isPlaying /\ appState.currentChunkIndex > 0
    /\ Commit(goToPreviousAudioChunk(appState))

PauseResumeBtn == Settled /\ appState.isPlaying /\ Commit(generateBtnClick(appState, 1))

StartBtn ==
    /\ Settled
    /\ appState.playerUI = "IDLE"
    /\ \E v \in 1..appState.lastAvailablePage : Commit(generateBtnClick(appState, v))

SpaceKey ==
    /\ Settled
    /\ appState.isPlaying \/ appState.isPaused
    /\ Commit(keydownSpace(appState))

(***************************************************************************)
(* The events of the extension.                                            *)
(***************************************************************************)
CommitExt(e) == state' = e /\ UNCHANGED appState

\* invocation started + 1 begins, with the text nodes given
NewInvocation(e, textNodes) ==
    [e EXCEPT !.started = @ + 1, !.textNodes[e.started + 1] = textNodes]

\* a start trigger: the popup, a keyboard command, the floating menu
StartReading ==
    /\ state.started < MaxSessions
    /\ \E textNodes \in ElementReadings \cup {PageReading} :
          CommitExt(startReading(NewInvocation(state, textNodes), state.started + 1))

\* the "read from here" button calls readTextNodes itself
ReadFromHere ==
    /\ state.started < MaxSessions
    /\ \E textNodes \in ElementReadings :
          CommitExt(readTextNodes(NewInvocation(state, textNodes), state.started + 1))

StopReading == CommitExt(stopReading(state))

DelayDone ==
    \E k \in Sessions :
        /\ state.inv[k].pc = "delay"
        /\ CommitExt(readTextNodes(state, k))

TtsResolved ==
    \E k \in Sessions, n \in 0..MaxExtChunks :
        /\ state.inv[k].pc = "tts"
        /\ n <= state.textNodes[k].chunks
        /\ CommitExt(ttsResolved(state, k, n))

TtsFailed ==
    \E k \in Sessions :
        /\ state.inv[k].pc = "tts"
        /\ CommitExt(readFailed(state, k))

ExtAudioEnded ==
    \E k \in Sessions :
        /\ state.inv[k].pc = "play"
        /\ state.inv[k].audio \in state.playing
        /\ CommitExt(audioEnded(state, k))

ExtAudioError ==
    \E k \in Sessions :
        /\ state.inv[k].pc = "play"
        /\ state.inv[k].audio \in state.playing
        /\ CommitExt(readFailed(state, k))

RevokeTimer ==
    /\ state.revokeTimers > 0
    /\ CommitExt(revokeBlobUrls(state))

\* an animation frame of an audio that is playing
Frame ==
    \E k \in Sessions, currentTime \in Times(state.timing) :
        /\ state.inv[k].pc = "play"
        /\ state.inv[k].audio \in state.playing
        /\ CommitExt(updateWordHighlight(state, k, currentTime))

\* the updateSettings message of the popup
UpdateSettings ==
    \E settings \in Settings : CommitExt(updateSettings(state, settings))

NextExt ==
    \/ StartReading
    \/ ReadFromHere
    \/ StopReading
    \/ DelayDone
    \/ TtsResolved
    \/ TtsFailed
    \/ ExtAudioEnded
    \/ ExtAudioError
    \/ RevokeTimer

\* the extension runs in a page of its own
InitExt == appState = InitApp(FALSE, FALSE, 1) /\ state = InitState

SpecExt == InitExt /\ [][NextExt]_vars

\* the first start trigger of a reading session
FirstStart == appState.allTextChunks = NoChunks /\ StartBtn

\* One reading session of the sequencer alone: a start trigger, and then the
\* requests, the play promises, the retry timers and the audio events in
\* any order.
NextSeq ==
    \/ FirstStart
    \/ SplitDone
    \/ RequestArrived
    \/ RequestFailed
    \/ PlayResolved
    \/ PlayRejected
    \/ RetryTimer
    \/ AudioEnded

SpecSeq == Init /\ [][NextSeq]_vars

\* The pause/resume controls.
Pausing ==
    \/ PauseResumeBtn
    \/ SpaceKey

\* One reading session with the pause/resume controls, while every request
\* yields audio and every audio starts.
NextPause ==
    \/ FirstStart
    \/ SplitDone
    \/ RequestArrived
    \/ PlayResolved
    \/ AudioEnded
    \/ Pausing

SpecPause == Init /\ [][NextPause]_vars

\* One reading session with the stop and pause/resume controls, of audio the
\* browser starts without rejection.
NextCtl ==
    \/ NextPause
    \/ RequestFailed
    \/ TimeUpdate
    \/ StopBtn

SpecCtl == InitOnePage /\ [][NextCtl]_vars

\* Any number of sessions, with the chunk controls as well.
NextNav ==
    \/ NextCtl
    \/ StartBtn
    \/ NextChunkBtn
    \/ PrevChunkBtn

SpecNav == Init /\ [][NextNav]_vars

\* One reading session in which play() may be rejected and retried, with the
\* stop control.
NextRetry ==
    \/ NextSeq
    \/ StopBtn

SpecRetry == InitOnePage /\ [][NextRetry]_vars

\* One reading session with the pause/resume and the chunk controls.
NextChunkCtl ==
    \/ NextPause
    \/ NextChunkBtn
    \/ PrevChunkBtn

SpecChunkCtl == InitOnePage /\ [][NextChunkCtl]_vars

\* the first reading of the page
FirstRead == state.started = 0 /\ ReadFromHere

\* the start trigger with the last page of the book in view
StartAtLastPage ==
    /\ appState.allTextChunks = NoChunks
    /\ Settled
    /\ appState.playerUI = "IDLE"
    /\ Commit(generateBtnClick(appState, appState.numPages))

\* chunks with any timing data are read: by the web app from a book (plain
\* text, a PDF, or a PDF with text positions) whose pages are all in the
\* page container, or by the extension from a page, the web app having no
\* book open
InitWords ==
    \E words \in Timings :
        \/ /\ \E pdf \in BOOLEAN, positions \in BOOLEAN :
                 /\ positions => pdf
                 /\ appState = [InitApp(pdf, positions, NumPages) EXCEPT
                                   !.words = words,
                                   !.lastAvailablePage = NumPages]
           /\ state = InitState
        \/ /\ appState = InitApp(FALSE, FALSE, 0)
           /\ state = InitPage(words, DefaultSettings)

\* One reading with its time updates: of the web app, or of the extension.
NextWords ==
    \/ /\ appState.numPages > 0
       /\ \/ StartAtLastPage
          \/ SplitDone
          \/ RequestArrived
          \/ PlayResolved
          \/ AudioEnded
          \/ TimeUpdate
    \/ /\ appState.numPages = 0
       /\ \/ FirstRead
          \/ TtsResolved
          \/ ExtAudioEnded
          \/ Frame

SpecWords == InitWords /\ [][NextWords]_vars

\* timing data without gaps and skip words
PlainTimings == {[i \in 1..n |-> Word(FALSE, FALSE, i)] : n \in 1..MaxWords}

\* the extension on a page, with word highlighting enabled or not, the web
\* app having no book open; or the web app with the text layer of a PDF
InitRender ==
    \/ /\ appState = InitApp(FALSE, FALSE, 0)
       /\ \E words \in PlainTimings, wordHighlight \in BOOLEAN :
             state = InitPage(words, [DefaultSettings EXCEPT
                                         !.wordHighlight = wordHighlight])
    \/ /\ appState = InitApp(TRUE, TRUE, 1)
       /\ state = InitState

\* The readings of the extension, one after or over the other, with their
\* animation frames and the stop message; or the highlights of the text
\* layer.
NextRender ==
    \/ /\ appState.numPages = 0
       /\ \/ StartReading
          \/ ReadFromHere
          \/ StopReading
          \/ DelayDone
          \/ TtsResolved
          \/ ExtAudioEnded
          \/ Frame
    \/ /\ appState.numPages > 0
       /\ \/ BackendHighlightChunk
          \/ BackendHighlightWord
          \/ BackendClearAll

SpecRender == InitRender /\ [][NextRender]_vars

\* the first start message of the popup
FirstReading == state.started = 0 /\ StartReading

\* the extension on a page, with the settings of a fresh installation; or
\* the web app with the text layer of a PDF
InitRestyle ==
    \/ /\ appState = InitApp(FALSE, FALSE, 0)
       /\ \E words \in PlainTimings : state = InitPage(words, DefaultSettings)
    \/ /\ appState = InitApp(TRUE, TRUE, 1)
       /\ state = InitState

\* One reading of the extension with its animation frames, the settings
\* updates of the popup and the stop message; or the highlights of the text
\* layer.
NextRestyle ==
    \/ /\ appState.numPages = 0
       /\ \/ FirstReading
          \/ TtsResolved
          \/ ExtAudioEnded
          \/ Frame
          \/ UpdateSettings
          \/ StopReading
    \/ /\ appState.numPages > 0
       /\ \/ BackendHighlightChunk
          \/ BackendHighlightWord
          \/ BackendClearAll

SpecRestyle == InitRestyle /\ [][NextRestyle]_vars

(***************************************************************************)
(* splitIntoChunks applied to the text nodes of a page and a chunk size.   *)
(***************************************************************************)
\* settings.chunkSize is a positive number; a size above the longest text
\* behaves as that length
ChunkSizes == 1..MaxText

InitSplit ==
    /\ appState = InitApp(FALSE, FALSE, 0)
    /\ \E textNodes \in NodeLists(MaxNodes), chunkSize \in ChunkSizes :
          state = [InitState EXCEPT !.split = [textNodes |-> textNodes,
                                               chunkSize |-> chunkSize,
                                               chunks |-> <<>>,
                                               done |-> FALSE]]

SplitIntoChunks ==
    /\ ~state.split.done
    /\ CommitExt([state EXCEPT
                     !.split.chunks = splitIntoChunks(state.split.textNodes,
                                                      state.split.chunkSize, 1),
                     !.split.done = TRUE])

NextSplit == SplitIntoChunks

SpecSplit == InitSplit /\ [][NextSplit]_vars

TypeOK == appState.currentChunkIndex \in Nat

(***************************************************************************)
(* Playback order.                                                         *)
(***************************************************************************)
Audible(s) == s.audioState \in {"starting", "playing"}

\* C1: whatever the order in which the chunk-audio requests resolve, the
\* audio that starts is that of the current chunk, and every chunk before it
\* has ended or been skipped: chunk i+1 never begins before chunk i is done.
PlaysInIndexOrder ==
    Audible(appState) =>
        /\ appState.audioSrc.idx = appState.currentChunkIndex
        /\ \A i \in 0..(appState.audioSrc.idx - 1) : i \in appState.h_done

\* chunk 3 plays after 0, 1 and 2, in a session where some audio arrived
\* before that of an earlier chunk
PlaysInIndexOrderWitness ==
    /\ appState.h_outOfOrder
    /\ appState.audioState = "playing"
    /\ appState.audioSrc = [page |-> 1, idx |-> 3]
    /\ appState.h_done = {0, 1, 2}

\* C3: in the extension at most one audio plays at a time, and what plays
\* and what is highlighted is a chunk of the reading started last, played
\* by that reading.
NoAudioOverlap ==
    /\ Cardinality(state.playing) <= 1
    /\ \A a \in state.playing : a.sess = state.started /\ a.by = state.started
    /\ state.highlighted # NoExtChunk => state.highlighted.sess = state.started

(***************************************************************************)
(* Stop.                                                                   *)
(***************************************************************************)
Highlights(s) == <<s.hlText, s.hlWord, s.hlPdfLayer, s.hlPdfSpans, s.hlPdfWord>>

NoHighlights == <<NoChunk, FALSE, NoChunk, NoChunk, FALSE>>

\* C2: after stop, the resolution of a request issued before the stop is a
\* no-op: it starts no audio and changes no highlight (h_stopped holds from
\* the stop until a request is issued again, so every request then in flight
\* was issued before the stop).
StaleResponseIsNoOp ==
    [][(appState.h_stopped /\ appState'.pending # appState.pending) =>
          /\ ~Audible(appState')
          /\ Highlights(appState') = Highlights(appState)]_vars

StoppedClean(s) ==
    /\ ~Audible(s)
    /\ Highlights(s) = NoHighlights
    /\ s.audioQueue = EmptyQueue
    /\ s.playerUI = "IDLE" /\ ~s.isPlaying /\ ~s.isPaused

\* C4: from whatever state stop is called, it leaves the audio halted, no
\* chunk or word highlight, the audio queue empty and the player idle.
StopClearsEverything ==
    [][appState' = stopAudioQueue(appState) => StoppedClean(appState')]_vars

(***************************************************************************)
(* Buffering, failures and the end of the chunk list.                      *)
(***************************************************************************)
\* nothing is in progress that would start the audio of the current chunk
Quiet(s) ==
    /\ s.splits = {} /\ s.pendingPlays = {} /\ s.retryTimers = 0
    /\ ~s.isPaused

CurrentReady(s) == QueueAt(s, s.currentChunkIndex) # NoAudio

\* C5: when a chunk ends while the audio of the next one is still requested,
\* the player shows Buffering, and once the audio of the current chunk is
\* there (and no start of it is under way) it is playing.
BuffersThenResumes ==
    /\ appState.h_endedWaiting => appState.playerUI = "BUFFERING"
    /\ (Quiet(appState) /\ CurrentReady(appState)) => Audible(appState)

\* C8: a chunk whose request failed is requested again or skipped: the
\* session never waits for a chunk of the list that is neither in the queue
\* nor requested.
FailedRequestIsSkipped ==
    ~ /\ appState.splits = {}
      /\ appState.currentChunkIndex < appState.allTextChunks.len
      /\ ~CurrentReady(appState)
      /\ ~PendingFor(appState, appState.currentChunkIndex)
      /\ appState.playerUI = "BUFFERING"

\* C9: once the last chunk of the last page has finished, nothing plays any
\* more, and when nothing is in progress the player is idle with no
\* highlight.
EndOfBookGoesIdle ==
    appState.h_endOfBook =>
        /\ ~Audible(appState)
        /\ (appState.splits = {} /\ appState.pending = {}) =>
               appState.playerUI = "IDLE" /\ Highlights(appState) = NoHighlights

\* C10: the first min(3, n) chunks are requested as soon as the chunk list is
\* there, and while chunk i plays chunk i+1 of the list has been requested.
PrefetchWindow ==
    LET n == appState.allTextChunks.len
    IN /\ \A i \in 0..(Min(InitialBuffer, n) - 1) : i \in appState.h_requested
       /\ ( /\ Audible(appState)
            /\ appState.audioSrc.page = appState.allTextChunks.page
            /\ appState.audioSrc.idx + 1 < n )
          => (appState.audioSrc.idx + 1) \in appState.h_requested

\* chunk 2 plays and chunk 3, not one of the first three, has been requested
PrefetchWindowWitness ==
    /\ appState.audioState = "playing"
    /\ appState.audioSrc = [page |-> 1, idx |-> 2]
    /\ 3 \in appState.h_requested

\* C7: the start of the audio of a chunk is attempted at most four times,
\* the first attempt and MaxRetries retries, before the chunk is skipped.
BoundedRetryThenSkip == appState.h_rejects.n <= MaxRetries + 1

(***************************************************************************)
(* Pause and resume.                                                       *)
(***************************************************************************)
PauseStep == ~appState.isPaused /\ appState'.isPaused

ResumeStep == appState.isPaused /\ ~appState'.isPaused /\ appState'.isPlaying

WordsAt(words, t) ==
    {i \in 0..(Len(words) - 1) :
        /\ ~words[i + 1].skip
        /\ words[i + 1].startTime <= t /\ t < words[i + 1].endTime}

\* the invocations of the extension's reader whose audio has had an
\* animation frame, the word highlight being enabled
Framed == {k \in Sessions : state.frame[k].currentTime # NoTime}

\* the web app has handled a time update of the audio that is playing, in
\* the precise mode of a PDF
PreciseUpdated ==
    /\ appState.audioState = "playing" /\ appState.currentTime # NoTime
    /\ appState.pdfDoc
    /\ QueueAt(appState, appState.currentChunkIndex).timing

\* the extension's frame callback returns the first word of WordsAt
HalfOpenExt ==
    \A k \in Framed :
        LET at == WordsAt(state.timing, state.frame[k].currentTime)
        IN at # {} => /\ state.frame[k].wordIndex \in at
                      /\ \A i \in at : state.frame[k].wordIndex <= i

\* the web app's time update highlights the first word of WordsAt
HalfOpenWeb ==
    PreciseUpdated =>
        LET at == WordsAt(appState.words, appState.currentTime)
        IN at # {} => /\ appState.hlPdfWord
                      /\ appState.hlPdfWordIndex \in at
                      /\ \A i \in at : appState.hlPdfWordIndex <= i

\* C11: in precise mode, at a playback time t that lies in the half-open
\* interval [startTime, endTime) of a non-skip word, the resolver returns
\* the first such word in index order -- in the extension's frame callback
\* and in the web app's time update of a PDF.
HalfOpenInterval == HalfOpenExt /\ HalfOpenWeb

\* the non-skip words (indices from 0) whose interval has elapsed at time t
Elapsed(words, t) ==
    {i \in 0..(Len(words) - 1) : ~words[i + 1].skip /\ words[i + 1].endTime <= t}

\* C12: in precise mode, at a playback time t that lies in no non-skip
\* word's interval (a gap, a skip word's interval, or past the last word's
\* end) while some non-skip word has elapsed, the extension's resolver
\* returns the latest non-skip word whose endTime <= t: not "none" (-1) and
\* not a later word.
LatestElapsedWord ==
    \A k \in Framed :
        LET t == state.frame[k].currentTime
            el == Elapsed(state.timing, t)
        IN (WordsAt(state.timing, t) = {} /\ el # {}) =>
              /\ state.frame[k].wordIndex \in el
              /\ \A i \in el : i <= state.frame[k].wordIndex

\* the word spans of the page that carry the word highlight
WordHighlighted ==
    {r \in {WordRef(el, p) : el \in Elements, p \in 0..(MaxWords * NumElements)} :
        /\ r.pos \in DOMAIN state.dom[r.el].content.cls
        /\ state.dom[r.el].content.words
        /\ Cls("owtts-word-highlight", "") \in state.dom[r.el].content.cls[r.pos]}

\* the timing entry of a word span: every chunk has the words of the timing
\* data, in order
TimingOf(r) == state.timing[(r.pos % Len(state.timing)) + 1]

\* C13: a word whose timing entry has skip = true never carries the word
\* highlight, whatever the playback times of the frames and time updates
\* were: neither a word span of the extension's page nor, in the web app's
\* precise mode, a text span of the PDF.
SkipWordNeverHighlighted ==
    /\ \A r \in WordHighlighted : ~TimingOf(r).skip
    /\ (appState.pdfDoc /\ appState.hlPdfWord
        /\ QueueAt(appState, appState.currentChunkIndex).timing)
          => ~appState.words[appState.hlPdfWordIndex + 1].skip

\* a frame fell inside the interval of a skip word and a word of the page
\* is highlighted
SkipWordNeverHighlightedWitness ==
    /\ WordHighlighted # {}
    /\ \E k \in Framed : \E i \in 1..Len(state.timing) :
          /\ state.timing[i].skip
          /\ state.timing[i].startTime <= state.frame[k].currentTime
          /\ state.frame[k].currentTime < state.timing[i].endTime

\* floor((t / duration) * wordCount) clamped to [0, wordCount - 1]
ClampedIndex(t, duration, wordCount) ==
    Min((t * wordCount) \div duration, wordCount - 1)

\* the web app has handled a time update of the audio that is playing, in
\* the approximate mode of a plain text
TextUpdated ==
    /\ appState.audioState = "playing" /\ appState.currentTime # NoTime
    /\ ~appState.pdfDoc
    /\ appState.currentWordCount > 0

\* the same in the approximate mode of a PDF: the chunk has no timing data
FallbackUpdated ==
    /\ appState.audioState = "playing" /\ appState.currentTime # NoTime
    /\ appState.pdfDoc
    /\ ~QueueAt(appState, appState.currentChunkIndex).timing
    /\ textSpans(appState) > 0

\* C14: in approximate mode, after a time update at t with 0 <= t <=
\* duration and wordCount > 0, the highlighted word is the one at index
\* floor((t / duration) * wordCount) clamped to [0, wordCount - 1] -- among
\* the word spans of the chunk in a plain text, among the text spans of the
\* page in a PDF without timing data.
ApproximateIndex ==
    /\ TextUpdated =>
          /\ appState.hlWord
          /\ appState.currentWordIndex =
                ClampedIndex(appState.currentTime, Duration(appState.words),
                             appState.currentWordCount)
    /\ FallbackUpdated =>
          /\ appState.hlPdfWord
          /\ appState.hlPdfWordIndex =
                ClampedIndex(appState.currentTime, Duration(appState.words),
                             textSpans(appState))

(***************************************************************************)
(* The highlight renderer (C15 to C20).                                    *)
(***************************************************************************)
\* the spans of the text layer that carry 'current-word-highlight'
LayerCurrentWords == {w \in LayerWords : appState.layer[w].currentWord}

\* at most one element carries the word highlight
AtMostOneWord ==
    /\ Cardinality(WordHighlighted) <= 1
    /\ Cardinality(LayerCurrentWords) <= 1

\* the chunk whose audio invocation k plays
PlayingChunk(k) == [sess |-> state.inv[k].audio.sess, idx |-> state.inv[k].audio.idx]

\* the word span of word wordIndex of the chunk invocation k plays
SpanOf(k, wordIndex) ==
    LET el == ElementOf(state, PlayingChunk(k))
    IN WordRef(el, state.dom[el].wordOffset + wordIndex)

\* a frame of invocation k moves the word highlight to another word of the
\* chunk
WordMoves(k) ==
    /\ state.inv[k].pc = "play" /\ state'.inv[k] = state.inv[k]
    /\ state.frame[k].lastWordIndex >= 0
    /\ state'.frame[k].lastWordIndex >= 0
    /\ state'.frame[k].lastWordIndex # state.frame[k].lastWordIndex

\* after the word highlight at i, the one at j leaves exactly the span of
\* word j highlighted
MovesToWord ==
    /\ \A k \in Sessions :
          WordMoves(k) =>
              WordHighlighted' = {SpanOf(k, state'.frame[k].lastWordIndex)}
    /\ \A i \in LayerWords, j \in LayerWords :
          (/\ i # j /\ LayerCurrentWords = {i}
           /\ appState' = backendHighlightWord(appState, j))
              => LayerCurrentWords' = {j}

\* C15: at every instant at most one element carries the word highlight,
\* and after the word highlight was applied at index i and then at index
\* j # i of the same chunk, exactly one element carries it, the one at
\* index j -- for the word spans of the extension and for the spans of the
\* web app's text layer.
SingleWordHighlight == [](AtMostOneWord) /\ [][MovesToWord]_vars

\* the word span exists in the document
SpanExists(e, r) ==
    e.dom[r.el].content.words /\ r.pos \in DOMAIN e.dom[r.el].content.cls

\* the word span the frame took the word highlight from has the chunk
\* classes with the current highlight colour and no other class
PreviousDemoted ==
    /\ \A k \in Sessions :
          WordMoves(k) =>
              LET prev == SpanOf(k, state.frame[k].lastWordIndex)
              IN (SpanExists(state, prev) /\ SpanExists(state', prev)) =>
                    ClassesOf(state', prev) =
                        ChunkClasses(state'.settings.highlightColor)
    /\ \A i \in LayerWords, j \in LayerWords :
          (/\ i # j /\ LayerCurrentWords = {i}
           /\ appState' = backendHighlightWord(appState, j))
              => /\ ~appState'.layer[i].currentWord
                 /\ appState'.layer[i].backgroundColor = "chunk"

Pristine(el) == state.dom[el] = InitPage(state.timing, state.settings).dom[el]

\* C17: after clearHighlights, whatever chunk highlights, word highlights,
\* word wrapping and settings updates came before, every element of the
\* page has the content it had before any wrapping or highlighting, and no
\* processed marker or highlight class is left (state.highlighted is the
\* chunk highlighted since the last clearHighlights, if any).
ClearRestoresPage ==
    state.highlighted = NoExtChunk => \A el \in Elements : Pristine(el)

Processed == {el \in Elements : state.dom[el].processed}

\* reading moves on: an element that was not wrapped gets wrapped while
\* state.previousChunkElement is another element
MovesElement(prev, el) ==
    /\ prev # 0 /\ prev # el
    /\ state.previousChunkElement = prev
    /\ ~state.dom[el].processed /\ state'.dom[el].processed

PreviousRestored ==
    \A prev \in Elements, el \in Elements :
        MovesElement(prev, el) =>
            /\ ~state'.dom[prev].processed
            /\ ~state'.dom[prev].content.words
            /\ state'.dom[prev] = InitPage(state'.timing, state'.settings).dom[prev]

ElementHighlighted(el) ==
    /\ ElementRef(el) \in state.highlightedElements
    /\ ChunkClasses(state.settings.highlightColor) \subseteq state.dom[el].classes

\* C19: a chunk whose text cannot be located in its source element is
\* highlighted by highlighting the entire element, and the chunk being read
\* is never left with no highlight at all.
ChunkHighlightFallback ==
    state.highlighted # NoExtChunk =>
        /\ state.highlightedElements # {}
        /\ ~InElement(state, state.highlighted) =>
               ElementHighlighted(ElementOf(state, state.highlighted))

\* an updateSettings message with new settings is handled while a chunk is
\* being read
SettingsUpdated ==
    /\ state'.settings # state.settings
    /\ state.isReading /\ state.highlighted # NoExtChunk

PlaybackKept ==
    /\ state'.isReading
    /\ state'.playing = state.playing
    /\ state'.currentAudio = state.currentAudio
    /\ state'.currentChunkIndex = state.currentChunkIndex
    /\ state'.inv = state.inv

\* every class of the colour kinds on the page is of the colour given
OnlyColors(e, color, wordColor) ==
    LET all == UNION ({e.dom[el].classes : el \in Elements}
                      \cup UNION {{e.dom[el].content.cls[p] :
                                      p \in DOMAIN e.dom[el].content.cls} :
                                   el \in Elements}
                      \cup {w.cls : w \in UNION {e.dom[el].content.wraps : el \in Elements}})
    IN \A c \in all : /\ c.kind = "owtts-color" => c.v = color
                      /\ c.kind = "owtts-word-color" => c.v = wordColor

WordColorOf(settings) ==
    IF settings.wordHighlightColor # "" THEN settings.wordHighlightColor
    ELSE settings.highlightColor

ChunkRecoloured ==
    /\ state'.highlightedElements # {}
    /\ \A r \in state'.highlightedElements :
          r = state'.currentWordElement
          \/ ChunkClasses(state'.settings.highlightColor) \subseteq ClassesOf(state', r)
    /\ OnlyColors(state', state'.settings.highlightColor, WordColorOf(state'.settings))

WordKeptRecoloured ==
    (state.currentWordElement # NoRef /\ state'.settings.wordHighlight) =>
        /\ state'.currentWordElement = state.currentWordElement
        /\ WordClasses(WordColorOf(state'.settings))
               \subseteq ClassesOf(state', state'.currentWordElement)

Restyled ==
    SettingsUpdated => PlaybackKept /\ ChunkRecoloured /\ WordKeptRecoloured

\* C20: an updateSettings message received while reading leaves playback
\* running and the chunk index unchanged; afterwards the highlighted
\* elements of the active chunk and the word-highlighted element, which
\* stays highlighted, carry the new colour and none carries the old one.
SettingsRestyle == [][Restyled]_vars

(***************************************************************************)
(* The chunker.                                                            *)
(***************************************************************************)
RECURSIVE Flat(_)
\* the concatenation of a sequence of texts
Flat(texts) == IF texts = <<>> THEN <<>> ELSE Head(texts) \o Flat(Tail(texts))

IsReadable(ch) == ch # " "

\* a text without its whitespace
NoSpace(text) == SelectSeq(text, IsReadable)

ChunkTexts == [i \in 1..Len(state.split.chunks) |-> state.split.chunks[i].text]

\* C21: the texts of the chunks returned, concatenated in order, are the
\* original text: apart from whitespace no character is dropped, a trailing
\* part without sentence-ending punctuation included.
ChunksCoverText ==
    state.split.done =>
        NoSpace(Flat(ChunkTexts)) = NoSpace(Flat(state.split.textNodes))

\* the text has one sentence: once it has begun, no terminator is followed
\* by something else
OneSentence(text) ==
    \A p \in 1..(Len(text) - 1) :
        (text[p] = "." /\ \E q \in 1..p : text[q] # ".") => text[p + 1] = "."

\* sub occurs in text as a contiguous part
IsPartOf(sub, text) ==
    \E from \in 0..Len(text) : indexOf(text, sub, from) = from

\* the texts of the chunks cut from text node e, in order
ChunkTextsOf(e) ==
    LET of == SelectSeq(state.split.chunks, LAMBDA c : c.element = e)
    IN [i \in 1..Len(of) |-> of[i].text]

\* chunk i ends where a sentence ends: with a terminator, or with the text
EndsSentence(i) ==
    LET c == state.split.chunks[i]
    IN \/ c.text # <<>> /\ c.text[Len(c.text)] = "."
       \/ i = Len(state.split.chunks)
       \/ state.split.chunks[i + 1].element # c.element

NoContent(k) == ~state.noChunks[k] /\ state'.noChunks[k]

NoContentHandled ==
    \A k \in Sessions :
        NoContent(k) =>
            /\ state'.menuStatus = "Error: No readable content found"
            /\ ~state'.isReading
            /\ state'.currentAudio = NoExtAudio
            /\ state'.playing \subseteq state.playing
            /\ state'.inv[k] = Done

\* C24: when a reading yields zero chunks the extension plays no audio for
\* it, shows the notice "No readable content found", does not retry (the
\* invocation is over) and is back in the not-reading state.
NoReadableContent ==
    /\ [][NoContentHandled]_vars
    /\ [](\A k \in Sessions :
             state.noChunks[k] =>
                 /\ state.inv[k] = Done
                 /\ \A a \in state.playing : a.by # k)

\* the notice is shown after a response without chunks
NoReadableContentWitness ==
    /\ \E k \in Sessions : state.noChunks[k]
    /\ state.menuStatus = "Error: No readable content found"
    /\ ~state.isReading

\* the invocations whose frame callback is scheduled: their audio plays
RunningLoops ==
    {k \in Sessions : state.inv[k].pc = "play" /\ state.inv[k].audio \in state.playing}

\* C25: after stopReading the per-frame word-highlight loop of the chunk
\* that was playing is cancelled: while the extension is not reading, no
\* updateWordHighlight callback is scheduled or highlights a word.
StopCancelsLoop == ~state.isReading => RunningLoops = {}

\* the timer of a stopReading fires
RevokeStep == state'.revokeTimers < state.revokeTimers

\* invocation k is the one started last and is playing its chunks: no
\* stopReading has run since it began to read
LatestReading(k) ==
    k = state.started /\ state.isReading /\ state.inv[k].pc = "play"

RevokesOnlyStopped ==
    RevokeStep => \A k \in state.audioBlobUrls : ~LatestReading(k)

\* C26: the deferred cleanup that stopReading schedules revokes only blob
\* URLs of the reading that was stopped, never one created by a reading
\* started after that stop.
RevokeSparesNewSession == [][RevokesOnlyStopped]_vars

(***************************************************************************)
(* The chunk controls of the web app.                                      *)
(***************************************************************************)
\* C27: whenever the audio player is playing, the audio loaded in it is the
\* audio of chunk currentChunkIndex of the page being read, whatever the
\* sequence of next-chunk, previous-chunk, pause and resume.
PlayerHoldsCurrentChunk ==
    Audible(appState) =>
        /\ appState.audioSrc.idx = appState.currentChunkIndex
        /\ appState.audioSrc.page = appState.allTextChunks.page

(***************************************************************************)
(* The play-retry timer and stop.                                          *)
(***************************************************************************)
\* a retry timer fires: the only step that takes a timer away
RetryFires == appState'.retryTimers < appState.retryTimers

\* stopAudioQueue has run and nothing was requested since
StoppedIdle == appState.h_stopped /\ appState.playerUI = "IDLE"

RetryKeepsIdle == (RetryFires /\ StoppedIdle) => appState'.playerUI = "IDLE"

\* C28: after stopAudioQueue, a play-retry timer scheduled before the stop
\* leaves the sequencer Idle when it fires.
RetryAfterStopKeepsIdle == [][RetryKeepsIdle]_vars

(***************************************************************************)
(* The requests of one reading session of a page.                          *)
(***************************************************************************)
\* C29: within one reading session of one page, the audio of each chunk index
\* is requested at most once.
RequestedAtMostOnce == appState.h_requestedTwice = {}

(***************************************************************************)
(* The range of currentChunkIndex.                                         *)
(***************************************************************************)
IndexInRange ==
    /\ 0 <= appState.currentChunkIndex
    /\ appState.currentChunkIndex <= appState.allTextChunks.len

PlaysExistingChunk ==
    Audible(appState) => appState.currentChunkIndex < appState.allTextChunks.len

\* C30: in every reachable state 0 <= currentChunkIndex <= allTextChunks.length,
\* and a chunk is played only when currentChunkIndex < allTextChunks.length.
ChunkIndexInBounds == IndexInRange /\ PlaysExistingChunk

====
